---- MODULE Spec2Model ----
(***************************************************************************)
(* Model of the termion input bridge of src/backend/termion.rs:            *)
(*   - the reader thread spawned by InputParser::new,                      *)
(*   - InputParser (request / peek / next_event / map_key),                *)
(*   - the multiplexer thread spawned by Backend::start_input_thread,      *)
(*   - the consumer at the far end of the request and response channels.   *)
(* All crossbeam channels of the file are bounded(0): a send and the       *)
(* matching receive complete together, which the model renders as one      *)
(* joint step of the two threads.  The resize thread started at lines      *)
(* 306-315 lives in another module; it is modelled as the forwarder that   *)
(* pushes synthetic resize events into the response channel.               *)
(***************************************************************************)
EXTENDS Integers, Sequences, FiniteSets, TLC

\* ---------------------------------------------------------------- bounds
\* Blocking reads that return an event in one behaviour.
MaxReads == 3
\* Requests the consumer sends in one behaviour.
MaxRequests == 3
\* Raw events mapped in one behaviour of the mapper-only specification.
MaxMapped == 3
\* Resize events the resize thread pushes in one behaviour.
MaxResizes == 1

\* ------------------------------------------------------- Option<T> values
None == [some |-> FALSE]
Some(v) == [some |-> TRUE, v |-> v]

\* ------------------------------------------------ raw events (termion)
\* termion::event::Event, as map_key receives it.
TKey(k) == [t |-> "Key", k |-> k]
TKeyF(i) == [t |-> "Key", k |-> "F", i |-> i]
TKeyChar(c) == [t |-> "Key", k |-> "Char", c |-> c]
TKeyCtrl(c) == [t |-> "Key", k |-> "Ctrl", c |-> c]
TKeyAlt(c) == [t |-> "Key", k |-> "Alt", c |-> c]
TPress(btn, x, y) == [t |-> "Mouse", m |-> "Press", btn |-> btn, x |-> x, y |-> y]
TRelease(x, y) == [t |-> "Mouse", m |-> "Release", x |-> x, y |-> y]
THold(x, y) == [t |-> "Mouse", m |-> "Hold", x |-> x, y |-> y]
TUnsupported(bytes) == [t |-> "Unsupported", bytes |-> bytes]

\* --------------------------------------------- abstract events (cursive)
Unknown(bytes) == [e |-> "Unknown", bytes |-> bytes]
KeyEvent(key) == [e |-> "Key", key |-> key]
CharEvent(c) == [e |-> "Char", c |-> c]
CtrlChar(c) == [e |-> "CtrlChar", c |-> c]
AltChar(c) == [e |-> "AltChar", c |-> c]
Exit == [e |-> "Exit"]
WindowResize == [e |-> "WindowResize"]
MousePress(btn) == [m |-> "Press", btn |-> btn]
MouseRelease(btn) == [m |-> "Release", btn |-> btn]
MouseHold(btn) == [m |-> "Hold", btn |-> btn]
MouseWheelUp == [m |-> "WheelUp"]
MouseWheelDown == [m |-> "WheelDown"]
Vec2Zero == <<0, 0>>
MouseEv(event, position) ==
    [e |-> "Mouse", event |-> event, position |-> position, offset |-> Vec2Zero]

\* Key::from_f of the event module: the symbolic key F(n) of a function-key
\* index, for the indices map_key passes to it (n < 12).
from_f(n) == [key |-> "F", n |-> n]

\* The symbolic key of a raw key that map_key lists by name.
NamedKey(k) ==
    CASE k = "Esc" -> [key |-> "Esc"]
      [] k = "Backspace" -> [key |-> "Backspace"]
      [] k = "Left" -> [key |-> "Left"]
      [] k = "Right" -> [key |-> "Right"]
      [] k = "Up" -> [key |-> "Up"]
      [] k = "Down" -> [key |-> "Down"]
      [] k = "Home" -> [key |-> "Home"]
      [] k = "End" -> [key |-> "End"]
      [] k = "PageUp" -> [key |-> "PageUp"]
      [] k = "PageDown" -> [key |-> "PageDown"]
      [] k = "Delete" -> [key |-> "Del"]
      [] k = "Insert" -> [key |-> "Ins"]
NamedKeys ==
    {"Esc", "Backspace", "Left", "Right", "Up", "Down", "Home", "End",
     "PageUp", "PageDown", "Delete", "Insert"}

\* ------------------------------------------------------------ the build
\* Whether the build has integer overflow checks (cargo's overflow-checks:
\* on in the dev profile, off in the release profile).  With them x - 1 on a
\* u16 that is 0 panics; without them it wraps to 65535.
VARIABLE overflow_checks

\* The outcome of an expression that may panic: a value, or the panic.
Ok(v) == [panic |-> FALSE, v |-> v]
Panic == [panic |-> TRUE]

\* Mutant of Position: the coordinates are passed on 1-based.
PositionRaw(x, y) == Ok(<<x, y>>)

\* x - 1 on a u16 coordinate.
Sub1(x) ==
    IF x >= 1 THEN Ok(x - 1)
    ELSE IF overflow_checks THEN Panic
    ELSE Ok((x - 1) % (2 ^ 16))
\* (x - 1, y - 1).into(): the 0-based position of 1-based terminal coordinates.
Position(x, y) ==
    IF Sub1(x).panic \/ Sub1(y).panic THEN Panic
    ELSE Ok(<<Sub1(x).v, Sub1(y).v>>)

\* Event::Mouse { event, position, offset: Vec2::zero() } for a position
\* that was computed or panicked.
MouseAt(event, position) ==
    IF position.panic THEN Panic ELSE Ok(MouseEv(event, position.v))

\* The `match btn` of the press arm: the mouse event of a pressed button.
PressEvent(btn) ==
    CASE btn = "Left" -> MousePress("Left")
      [] btn = "Middle" -> MousePress("Middle")
      [] btn = "Right" -> MousePress("Right")
      [] btn = "WheelUp" -> MouseWheelUp
      [] btn = "WheelDown" -> MouseWheelDown

\* Mutant of LatchButton: a press does not record its button.
LatchButtonKeeps(last_button, event) == last_button

\* The `if let MouseEvent::Press(btn) = event` of the press arm: the latched
\* button after a press whose mouse event is `event`.
LatchButton(last_button, event) ==
    IF event.m = "Press" THEN Some(event.btn) ELSE last_button

\* Mutant of IsFKey: the guard written i <= 12.
IsFKeyInclusive(i) == i <= 12

\* The F(i) guard of map_key.
IsFKey(i) == i < 12

\* Mutant of MapCtrl: the Ctrl('c') arm is missing.
MapCtrlNoExit(c) == CtrlChar(c)

\* The Ctrl arms of map_key.
MapCtrl(c) == IF c = "c" THEN Exit ELSE CtrlChar(c)

\* The Release and Hold arms of map_key, with their is_some() guards; an
\* unlatched release or hold falls through to the final `_` arm.
MapRelease(last_button, x, y) ==
    IF last_button.some
    THEN MouseAt(MouseRelease(last_button.v), Position(x, y))
    ELSE Ok(Unknown(<<>>))
MapHold(last_button, x, y) ==
    IF last_button.some
    THEN MouseAt(MouseHold(last_button.v), Position(x, y))
    ELSE Ok(Unknown(<<>>))

\* The Key arms of map_key; a key that no arm names falls through to the
\* final `_` arm.
MapKeyKey(event) ==
    CASE event.k \in NamedKeys -> KeyEvent(NamedKey(event.k))
      [] event.k = "F" ->
            IF IsFKey(event.i) THEN KeyEvent(from_f(event.i))
            ELSE Unknown(<<event.i>>)
      [] event.k = "Char" ->
            CASE event.c = "\n" -> KeyEvent([key |-> "Enter"])
              [] event.c = "\t" -> KeyEvent([key |-> "Tab"])
              [] OTHER -> CharEvent(event.c)
      [] event.k = "Ctrl" -> MapCtrl(event.c)
      [] event.k = "Alt" -> AltChar(event.c)
      [] OTHER -> Unknown(<<>>)

\* Mutant of MapMouse: a press reports the button latched before it.
MapMouseStalePress(last_button, event) ==
    CASE event.m = "Press" ->
            MouseAt(IF last_button.some /\ event.btn \in {"Left", "Middle", "Right"}
                    THEN MousePress(last_button.v)
                    ELSE PressEvent(event.btn),
                    Position(event.x, event.y))
      [] event.m = "Release" -> MapRelease(last_button, event.x, event.y)
      [] event.m = "Hold" -> MapHold(last_button, event.x, event.y)

\* The Mouse arms of map_key.
MapMouse(last_button, event) ==
    CASE event.m = "Press" ->
            MouseAt(PressEvent(event.btn), Position(event.x, event.y))
      [] event.m = "Release" -> MapRelease(last_button, event.x, event.y)
      [] event.m = "Hold" -> MapHold(last_button, event.x, event.y)

\* map_key: the abstract event returned for raw event `event` when the
\* latched button is `last_button`, or the panic of a coordinate subtraction.
MapKeyEvent(last_button, event) ==
    CASE event.t = "Unsupported" -> Ok(Unknown(event.bytes))
      [] event.t = "Key" -> Ok(MapKeyKey(event))
      [] event.t = "Mouse" -> MapMouse(last_button, event)

\* map_key: the latched button after mapping `event`.  In the press arm the
\* position is computed first: when that panics, the button is not latched.
MapKeyButton(last_button, event) ==
    IF event.t = "Mouse" /\ event.m = "Press"
    THEN IF Position(event.x, event.y).panic THEN last_button
         ELSE LatchButton(last_button, PressEvent(event.btn))
    ELSE last_button

\* map_key as a whole: the returned event, or the panic, and the parser's
\* new last_button.
map_key(last_button, event) ==
    [event |-> MapKeyEvent(last_button, event),
     last_button |-> MapKeyButton(last_button, event)]

\* What the history of map_key calls records for a call that panicked.
Panicked == [e |-> "Panicked"]
\* The event a call of map_key returned, or Panicked.
Returned(r) == IF r.panic THEN Panicked ELSE r.v

\* ------------------------------------------------------------ the state
VARIABLES
    rpc,          \* reader thread: "recv" | "read" | "send" | "done" | "panicked"
    held,         \* the raw event the reader thread read and has not handed off
    mpc,          \* multiplexer thread: "idle" | "req_send" | "select" | "recv"
                  \*   | "respond" | "done" | "panicked"
    cur,          \* the request the multiplexer is serving: "Peek" | "Block" | "none"
    resp,         \* what peek() / next_event() returned to the multiplexer
    last_button,  \* InputParser.last_button
    event_due,    \* InputParser.event_due
    running,      \* the AtomicBool of start_input_thread
    reqClosed,    \* the consumer dropped its sender of input_request
    respDropped,  \* the consumer dropped its receiver of event_sink
    respIdx,      \* history: the place in rawLog of the raw event behind resp, or 0
    rawLog,       \* history: the raw events the blocking reads returned, in order
    mapLog,       \* history: every application of map_key, in order
    sent,         \* history: every response the multiplexer delivered on event_sink
    resized,      \* history: every message the resize thread delivered on event_sink
    tokens,       \* history: RequestTokens handed to the reader thread
    nreq,         \* history: requests the multiplexer received
    timeouts,     \* history: peek timeouts since the last raw result was received
    runTokens     \* history: tokens handed off since the last raw result was received

vars ==
    <<overflow_checks, resized,
      rpc, held, mpc, cur, resp, respIdx, last_button, event_due, running,
      reqClosed, respDropped, rawLog, mapLog, sent, tokens, nreq, timeouts, runTokens>>

parserVars == <<last_button, event_due>>
readerVars == <<rpc, held, rawLog>>
consumerVars == <<reqClosed, respDropped>>

\* Raw events the raw input source returns in the protocol specification.
ProtoEvents ==
    {TPress("Left", 1, 1), TRelease(3, 2), THold(1, 0)}

RequestKinds == {"Peek", "Block"}

\* A thread that has returned or unwound has dropped its channel endpoints.
Terminated(pc) == pc \in {"done", "panicked"}

\* InputParser::new and start_input_thread: both threads spawned, nothing sent.
Init ==
    /\ overflow_checks \in BOOLEAN
    /\ rpc = "recv"
    /\ held = None
    /\ mpc = "idle"
    /\ cur = "none"
    /\ resp = None
    /\ respIdx = 0
    /\ last_button = None
    /\ event_due = FALSE
    /\ running = TRUE
    /\ reqClosed = FALSE
    /\ respDropped = FALSE
    /\ rawLog = <<>>
    /\ mapLog = <<>>
    /\ sent = <<>>
    /\ resized = <<>>
    /\ tokens = 0
    /\ nreq = 0
    /\ timeouts = 0
    /\ runTokens = 0

\* ------------------------------------------------------- InputParser
\* Mutant of RequestSends: request() sends a token on every call.
RequestSendsAlways(due) == TRUE

\* request(): a token is sent only if no event is already due.
RequestSends(due) == ~due

\* Mutant of Call: both arms of the match call peek().
CallAlwaysPeek(kind) == "peek"

\* The match of the multiplexer loop: the parser method a request kind calls.
Call(kind) == IF kind = "Peek" THEN "peek" ELSE "next_event"

\* Where a parser method waits for the raw result: peek in its select!,
\* next_event in input.recv().
WaitPc(method) == IF method = "peek" THEN "select" ELSE "recv"

\* The multiplexer's `for req in input_request` receives a request from the
\* consumer and enters peek() or next_event(), whose first statement is
\* request().
MuxRecvRequest(kind) ==
    /\ mpc = "idle"
    /\ ~reqClosed
    /\ nreq < MaxRequests
    /\ cur' = kind
    /\ nreq' = nreq + 1
    /\ mpc' = IF RequestSends(event_due) THEN "req_send" ELSE WaitPc(Call(kind))
    /\ UNCHANGED <<resp, respIdx, parserVars, readerVars, running, consumerVars,
                   mapLog, sent, tokens, timeouts, runTokens,
                   overflow_checks, resized>>

\* Mutant of TokenHandOff: request() sends the token and does not set
\* event_due.
TokenHandOffNoFlag ==
    /\ mpc = "req_send"
    /\ rpc = "recv"
    /\ rpc' = "read"
    /\ mpc' = WaitPc(Call(cur))
    /\ tokens' = tokens + 1
    /\ runTokens' = runTokens + 1
    /\ UNCHANGED <<held, cur, resp, respIdx, last_button, event_due, running,
                   reqClosed, respDropped, rawLog, mapLog, sent, nreq, timeouts,
                   overflow_checks, resized>>

\* request(): requests.send(()) meets the reader thread's receive of the
\* token; event_due becomes true.  (The send is only ever attempted with
\* event_due false, when the reader thread is alive: its unwrap() of a
\* failed send has no reachable case.)
TokenHandOff ==
    /\ mpc = "req_send"
    /\ rpc = "recv"
    /\ rpc' = "read"
    /\ event_due' = TRUE
    /\ mpc' = WaitPc(Call(cur))
    /\ tokens' = tokens + 1
    /\ runTokens' = runTokens + 1
    /\ UNCHANGED <<held, cur, resp, respIdx, last_button, running, consumerVars,
                   rawLog, mapLog, sent, nreq, timeouts,
                   overflow_checks, resized>>

\* Mutant of ReaderAfterSend: the reader thread reads on after a send,
\* without waiting for a token.
ReaderAfterSendReadsOn == "read"

\* The reader thread's loop: after a successful send the `for` goes back to
\* the receive of the next token.
ReaderAfterSend == "recv"

\* peek() / next_event(): the raw result is received from the reader thread's
\* send; event_due is cleared and the event is mapped.  When map_key panics
\* the call does not return and the multiplexer thread unwinds.
ResultHandOff ==
    /\ mpc \in {"select", "recv"}
    /\ rpc = "send"
    /\ LET m == map_key(last_button, held.v.ev) IN
        /\ last_button' = m.last_button
        /\ mapLog' = Append(mapLog,
                [raw |-> held.v.ev, idx |-> held.v.idx, out |-> Returned(m.event),
                 before |-> last_button])
        /\ IF m.event.panic
           THEN /\ mpc' = "panicked"
                /\ UNCHANGED <<resp, respIdx>>
           ELSE /\ mpc' = "respond"
                /\ resp' = IF mpc = "select" THEN Some(m.event.v) ELSE m.event.v
                /\ respIdx' = held.v.idx
    /\ event_due' = FALSE
    /\ rpc' = ReaderAfterSend
    /\ held' = None
    /\ timeouts' = 0
    /\ runTokens' = 0
    /\ UNCHANGED <<cur, running, consumerVars, rawLog, sent, tokens, nreq,
                   overflow_checks, resized>>

\* Mutant of PeekTimeout: a timer that fires while the reader thread is
\* sending takes the raw result, clears event_due and still returns None.
PeekTimeoutDiscards ==
    /\ mpc = "select"
    /\ resp' = None
    /\ respIdx' = 0
    /\ mpc' = "respond"
    /\ timeouts' = timeouts + 1
    /\ IF rpc = "send"
       THEN rpc' = "recv" /\ held' = None /\ event_due' = FALSE
       ELSE UNCHANGED <<rpc, held, event_due,
                   overflow_checks, resized>>
    /\ UNCHANGED <<cur, last_button, rawLog, running, reqClosed, respDropped,
                   mapLog, sent, tokens, nreq, runTokens,
                   overflow_checks, resized>>

\* Mutant of PeekTimeout: a peek that times out sends no response.
PeekTimeoutSilent ==
    /\ mpc = "select"
    /\ mpc' = "idle"
    /\ cur' = "none"
    /\ timeouts' = timeouts + 1
    /\ UNCHANGED <<resp, respIdx, last_button, event_due, rpc, held, rawLog,
                   running, reqClosed, respDropped, mapLog, sent, tokens, nreq,
                   runTokens,
                   overflow_checks, resized>>

\* Mutant of PeekTimeout: a peek that times out clears event_due.
PeekTimeoutClearsDue ==
    /\ mpc = "select"
    /\ resp' = None
    /\ respIdx' = 0
    /\ mpc' = "respond"
    /\ timeouts' = timeouts + 1
    /\ event_due' = FALSE
    /\ UNCHANGED <<cur, last_button, readerVars, running, consumerVars,
                   mapLog, sent, tokens, nreq, runTokens,
                   overflow_checks, resized>>

\* peek(): the 10ms timer of the select! fires; peek returns None and leaves
\* event_due as it is.
PeekTimeout ==
    /\ mpc = "select"
    /\ resp' = None
    /\ respIdx' = 0
    /\ mpc' = "respond"
    /\ timeouts' = timeouts + 1
    /\ UNCHANGED <<cur, parserVars, readerVars, running, consumerVars,
                   mapLog, sent, tokens, nreq, runTokens,
                   overflow_checks, resized>>

\* peek() / next_event(): the receive on `input` fails because the reader
\* thread is gone; unwrap() panics (peek has already cleared event_due).
ResultRecvFails ==
    /\ mpc \in {"select", "recv"}
    /\ Terminated(rpc)
    /\ event_due' = IF mpc = "select" THEN FALSE ELSE event_due
    /\ mpc' = "panicked"
    /\ UNCHANGED <<cur, resp, respIdx, last_button, readerVars, running, consumerVars,
                   mapLog, sent, tokens, nreq, timeouts, runTokens,
                   overflow_checks, resized>>

\* -------------------------------------------------- multiplexer thread
\* The response a request kind forwards: peek()'s Option as it is, and
\* next_event()'s event wrapped in Some.
Forwarded(method, r) == IF method = "peek" THEN r ELSE Some(r)

\* event_sink.send(..) meets the consumer's receive.
MuxSendResponse ==
    /\ mpc = "respond"
    /\ ~respDropped
    /\ sent' = Append(sent,
            [req |-> cur, resp |-> Forwarded(Call(cur), resp), idx |-> respIdx])
    /\ mpc' = "idle"
    /\ cur' = "none"
    /\ resp' = None
    /\ respIdx' = 0
    /\ UNCHANGED <<parserVars, readerVars, running, consumerVars,
                   mapLog, tokens, nreq, timeouts, runTokens,
                   overflow_checks, resized>>

\* event_sink.send(..) fails because the consumer dropped the receiver;
\* unwrap() panics.
MuxSendFails ==
    /\ mpc = "respond"
    /\ respDropped
    /\ mpc' = "panicked"
    /\ UNCHANGED <<cur, resp, respIdx, parserVars, readerVars, running, consumerVars,
                   mapLog, sent, tokens, nreq, timeouts, runTokens,
                   overflow_checks, resized>>

\* Mutant of MuxExit: the loop ends without storing false to running.
MuxExitKeepsRunning ==
    /\ mpc = "idle"
    /\ reqClosed
    /\ mpc' = "done"
    /\ UNCHANGED <<running, cur, resp, respIdx, last_button, event_due, rpc,
                   held, rawLog, reqClosed, respDropped, mapLog, sent, tokens,
                   nreq, timeouts, runTokens,
                   overflow_checks, resized>>

\* `for req in input_request` ends because the consumer closed the channel;
\* running is set to false and the thread returns.
MuxExit ==
    /\ mpc = "idle"
    /\ reqClosed
    /\ running' = FALSE
    /\ mpc' = "done"
    /\ UNCHANGED <<cur, resp, respIdx, parserVars, readerVars, consumerVars,
                   mapLog, sent, tokens, nreq, timeouts, runTokens,
                   overflow_checks, resized>>

\* ------------------------------------------------------- reader thread
\* events.next() returns Some(Ok(event)).
ReaderRead(ev) ==
    /\ rpc = "read"
    /\ Len(rawLog) < MaxReads
    /\ rawLog' = Append(rawLog, ev)
    /\ held' = Some([idx |-> Len(rawLog) + 1, ev |-> ev])
    /\ rpc' = "send"
    /\ UNCHANGED <<mpc, cur, resp, respIdx, parserVars, running, consumerVars,
                   mapLog, sent, tokens, nreq, timeouts, runTokens,
                   overflow_checks, resized>>

\* events.next() returns None (end of input) or Some(Err(_)); the unwrap()
\* of line 63 or of line 65 panics.
ReaderReadFails ==
    /\ rpc = "read"
    /\ rpc' = "panicked"
    /\ UNCHANGED <<held, rawLog, mpc, cur, resp, respIdx, parserVars, running,
                   consumerVars, mapLog, sent, tokens, nreq, timeouts, runTokens,
                   overflow_checks, resized>>

\* Mutant of ReaderSendFails: a failed send is ignored and the reader thread
\* starts its next blocking read.
ReaderSendFailsReadsOn ==
    /\ rpc = "send"
    /\ Terminated(mpc)
    /\ rpc' = "read"
    /\ held' = None
    /\ UNCHANGED <<rawLog, mpc, cur, resp, respIdx, parserVars, running, consumerVars,
                   mapLog, sent, tokens, nreq, timeouts, runTokens,
                   overflow_checks, resized>>

\* input_sender.send(..) fails because the parser was dropped; the thread
\* returns, discarding the event.
ReaderSendFails ==
    /\ rpc = "send"
    /\ Terminated(mpc)
    /\ rpc' = "done"
    /\ held' = None
    /\ UNCHANGED <<rawLog, mpc, cur, resp, respIdx, parserVars, running, consumerVars,
                   mapLog, sent, tokens, nreq, timeouts, runTokens,
                   overflow_checks, resized>>

\* `for _ in request_receiver` ends because the parser was dropped.
ReaderExit ==
    /\ rpc = "recv"
    /\ Terminated(mpc)
    /\ rpc' = "done"
    /\ UNCHANGED <<held, rawLog, mpc, cur, resp, respIdx, parserVars, running,
                   consumerVars, mapLog, sent, tokens, nreq, timeouts, runTokens,
                   overflow_checks, resized>>

\* ------------------------------------------------------------ consumer
\* The consumer drops its sender of the request channel.
CloseRequests ==
    /\ ~reqClosed
    /\ reqClosed' = TRUE
    /\ UNCHANGED <<respDropped, rpc, held, rawLog, mpc, cur, resp, respIdx, parserVars,
                   running, mapLog, sent, tokens, nreq, timeouts, runTokens,
                   overflow_checks, resized>>

\* The consumer drops its receiver of the response channel.
DropResponses ==
    /\ ~respDropped
    /\ respDropped' = TRUE
    /\ UNCHANGED <<reqClosed, rpc, held, rawLog, mpc, cur, resp, respIdx, parserVars,
                   running, mapLog, sent, tokens, nreq, timeouts, runTokens,
                   overflow_checks, resized>>

\* ------------------------------------------------------ resize thread
\* The resize thread pushes a synthetic resize event into the response
\* channel, where it meets the consumer's receive.
ResizeForward ==
    /\ ~respDropped
    /\ Len(resized) < MaxResizes
    /\ resized' = Append(resized, Some(WindowResize))
    /\ UNCHANGED <<rpc, held, mpc, cur, resp, respIdx, parserVars, rawLog,
                   running, consumerVars, mapLog, sent, tokens, nreq, timeouts,
                   runTokens, overflow_checks>>

\* Every step but a blocking read that returns an event.
NextButRead ==
    \/ \E kind \in RequestKinds : MuxRecvRequest(kind)
    \/ TokenHandOff
    \/ ResultHandOff
    \/ PeekTimeout
    \/ ResultRecvFails
    \/ MuxSendResponse
    \/ MuxSendFails
    \/ MuxExit
    \/ ReaderReadFails
    \/ ReaderSendFails
    \/ ReaderExit
    \/ CloseRequests
    \/ DropResponses
    \/ ResizeForward

Next ==
    \/ NextButRead
    \/ \E ev \in ProtoEvents : ReaderRead(ev)

Spec == Init /\ [][Next]_vars

\* The threads' own steps are taken once they can be: a rendezvous whose two
\* sides are ready completes, a failed channel operation returns, and the
\* 10ms timer of peek's select! fires.  Nothing is assumed of the raw input
\* source (ReaderRead, ReaderReadFails) or of the consumer.
FairSpec ==
    /\ Spec
    /\ WF_vars(TokenHandOff)
    /\ WF_vars(ResultHandOff)
    /\ WF_vars(PeekTimeout)
    /\ WF_vars(ResultRecvFails)
    /\ WF_vars(MuxSendFails)
    /\ WF_vars(MuxExit)
    /\ WF_vars(ReaderSendFails)
    /\ WF_vars(ReaderExit)

\* ------------------------------------------- the mapper on its own
\* Raw events given to map_key in the mapper-only specification.
MapEvents ==
    {TKey("Esc"), TKey("Delete"), TKey("Null")}
    \cup {TKeyF(i) : i \in {0, 1, 11, 12, 255}}
    \cup {TKeyChar(c) : c \in {"\n", "\t", "c"}}
    \cup {TKeyCtrl(c) : c \in {"c", "a"}}
    \cup {TKeyAlt("c")}
    \cup {TUnsupported(<<>>), TUnsupported(<<27, 91>>)}
    \cup {TPress("Left", 1, 1), TPress("Middle", 3, 2), TPress("Right", 65535, 1),
          TPress("WheelUp", 3, 2), TPress("WheelDown", 1, 1)}
    \cup {TRelease(1, 1), TRelease(3, 2), THold(1, 1), THold(2, 65535)}
    \cup {TPress("Left", 0, 1), TRelease(0, 1), THold(1, 0)}

\* One call of map_key on a parser, outside peek and next_event; a panic
\* unwinds the thread that owns the parser.
MapStep(ev) ==
    /\ Len(mapLog) < MaxMapped
    /\ mpc = "idle"
    /\ LET m == map_key(last_button, ev) IN
        /\ last_button' = m.last_button
        /\ mapLog' = Append(mapLog,
                [raw |-> ev, idx |-> Len(mapLog) + 1, out |-> Returned(m.event),
                 before |-> last_button])
        /\ mpc' = IF m.event.panic THEN "panicked" ELSE mpc
    /\ UNCHANGED <<rpc, held, cur, resp, respIdx, event_due, running,
                   reqClosed, respDropped, rawLog, sent, tokens, nreq,
                   timeouts, runTokens,
                   overflow_checks, resized>>

MapNext == \E ev \in MapEvents : MapStep(ev)

MapSpec == Init /\ [][MapNext]_vars

\* ====================================================== the properties
\* The latched button after map_key has been applied to the first n events
\* of `log`, starting from a new parser.
RECURSIVE ButtonAfter(_, _)
ButtonAfter(log, n) ==
    IF n = 0 THEN None ELSE MapKeyButton(ButtonAfter(log, n - 1), log[n])

\* The abstract event of the k-th event of `log` when the events of `log`
\* are mapped one after the other by a new parser.
Expected(log, k) == Returned(MapKeyEvent(ButtonAfter(log, k - 1), log[k]))

IsSome(r) == r.resp.some
\* The responses that carry an event, in the order they were delivered.
Forwards == SelectSeq(sent, IsSome)

IsReleaseOrHold(raw) == raw.t = "Mouse" /\ raw.m \in {"Release", "Hold"}
IsPress(raw) == raw.t = "Mouse" /\ raw.m = "Press"
IsFRaw(raw) == raw.t = "Key" /\ raw.k = "F"

\* C1: the events forwarded to the consumer are, one for one and in order,
\* the mapped images of a prefix of the raw events the blocking reads
\* returned: the k-th forwarded event comes from the k-th raw event.
C1_ForwardedIsPrefixOfRaw ==
    /\ Len(Forwards) <= Len(rawLog)
    /\ \A k \in 1..Len(Forwards) :
          /\ Forwards[k].idx = k
          /\ k <= Len(rawLog)
          /\ Forwards[k].resp.v = Expected(rawLog, k)

\* C1 witness: a peek timed out, and the two raw events read around it were
\* both forwarded afterwards.
C1_Witness ==
    /\ Len(Forwards) >= 2
    /\ \E i \in 1..Len(sent) : \E j \in 1..Len(sent) :
          i < j /\ ~sent[i].resp.some /\ sent[j].resp.some

\* C2: a Block request is always answered Some(event), the event being the
\* mapped raw result received for it; None answers only a Peek for which no
\* raw result was received before its timer fired.
C2_BlockNeverNone ==
    /\ \A i \in 1..Len(sent) :
          /\ sent[i].req = "Block" =>
                /\ sent[i].resp.some
                /\ sent[i].idx \in 1..Len(mapLog)
                /\ sent[i].resp.v = mapLog[sent[i].idx].out
          /\ ~sent[i].resp.some => (sent[i].req = "Peek" /\ sent[i].idx = 0)
    /\ mpc = "respond" =>
          /\ cur = "Block" => (Forwarded(Call(cur), resp).some /\ respIdx > 0)
          /\ ~Forwarded(Call(cur), resp).some =>
                (cur = "Peek" /\ respIdx = 0 /\ timeouts > 0)

\* C2 witness: a Block answered with an event and a Peek answered None.
C2_Witness ==
    \E i \in 1..Len(sent) : \E j \in 1..Len(sent) :
        /\ sent[i].req = "Block" /\ sent[i].resp.some
        /\ sent[j].req = "Peek" /\ ~sent[j].resp.some

\* C3: while peeks time out one after the other, exactly one token has been
\* handed to the reader and event_due stays true; request() tries to send
\* only with event_due false, never after a timeout; a next_event() that
\* follows waits on that same single token.
C3_OneTokenPerWait ==
    ~Terminated(mpc) =>
        /\ timeouts >= 1 => (runTokens = 1 /\ event_due)
        /\ mpc = "req_send" => (~event_due /\ timeouts = 0 /\ runTokens = 0)
        /\ mpc \in {"select", "recv"} => (runTokens = 1 /\ event_due)

\* C3 witness: two peeks timed out and a next_event() waits, on one token.
C3_Witness ==
    /\ timeouts >= 2
    /\ cur = "Block"
    /\ mpc = "recv"
    /\ runTokens = 1

\* C4: a Peek the multiplexer accepted is eventually answered.
C4_PeekEventuallyAnswered ==
    (cur = "Peek" /\ mpc \in {"req_send", "select"}) ~> (mpc = "respond")

\* C5: requests are served one at a time: the responses sent are as many as
\* the requests received when the multiplexer waits for a request, and one
\* fewer while it serves one.
C5_OneResponsePerRequest ==
    /\ nreq - Len(sent) \in {0, 1}
    /\ mpc = "idle" => nreq = Len(sent)
    /\ mpc \in {"req_send", "select", "recv", "respond"} => nreq = Len(sent) + 1
    /\ \A i \in 1..Len(sent) : sent[i].req \in RequestKinds

\* C5 witness: the third request is being answered after two responses.
C5_Witness ==
    /\ Len(sent) = 2
    /\ nreq = 3
    /\ mpc = "respond"

\* C6 as stated: once the request channel is closed the loop terminates and
\* running becomes false, whatever the multiplexer was doing; stated here for
\* the behaviours in which no blocking read fails, the consumer keeps its
\* receiver of the response channel and takes every response sent to it, so
\* that no thread panics and no send stays blocked.
C6_CloseAlwaysTerminates ==
    (/\ [](rpc # "panicked") /\ [](mpc # "panicked")
     /\ [](~respDropped) /\ []<>(mpc # "respond"))
        => (reqClosed ~> (mpc = "done" /\ running = FALSE))

\* C6 as amended: a multiplexer that waits for a request on a closed channel
\* terminates with running false; running is false only once the loop has
\* ended that way.
C6_CloseTerminatesWhenIdle ==
    /\ (reqClosed /\ mpc = "idle") ~> (mpc = "done" /\ running = FALSE)
    /\ [](running = FALSE <=> mpc = "done")
    /\ [](mpc = "done" => reqClosed)

\* C6 witness: the loop has ended on the closed channel after serving a
\* request.
C6_Witness ==
    /\ reqClosed
    /\ mpc = "done"
    /\ running = FALSE
    /\ Len(sent) >= 1

\* C7 as stated: the same raw event always maps to the same abstract event,
\* whatever was mapped before.
C7_SameRawSameEvent ==
    \A i \in 1..Len(mapLog) : \A j \in 1..Len(mapLog) :
        mapLog[i].raw = mapLog[j].raw => mapLog[i].out = mapLog[j].out

\* C7 as amended: a key event, an unsupported sequence and a mouse press map
\* to the same abstract event whatever was mapped before; a mouse release
\* or hold maps to the same abstract event when the latched button is the
\* same.
C7_SameRawSameEventButRelease ==
    \A i \in 1..Len(mapLog) : \A j \in 1..Len(mapLog) :
        (/\ mapLog[i].raw = mapLog[j].raw
         /\ (IsReleaseOrHold(mapLog[i].raw) => mapLog[i].before = mapLog[j].before))
        => mapLog[i].out = mapLog[j].out

\* C7 witness: the same press mapped twice, with different buttons latched.
C7_Witness ==
    \E i \in 1..Len(mapLog) : \E j \in 1..Len(mapLog) :
        /\ i < j
        /\ IsPress(mapLog[i].raw)
        /\ mapLog[i].raw = mapLog[j].raw
        /\ mapLog[i].before # mapLog[j].before
        /\ mapLog[j].before.some

\* The real-button presses mapped before the i-th mapping.
PressesBefore(i) ==
    {j \in 1..(i - 1) :
        IsPress(mapLog[j].raw) /\ mapLog[j].raw.btn \in {"Left", "Middle", "Right"}}
Latest(S) == CHOOSE j \in S : \A k \in S : k <= j

\* A raw mouse event with a coordinate 0, whose x - 1 or y - 1 overflows.
HasZero(raw) == raw.t = "Mouse" /\ (raw.x = 0 \/ raw.y = 0)

\* C8 (as stated): a release or hold mapped before any press maps to
\* Unknown([]); once a button is latched a release maps to Release(latched)
\* and a hold to Hold(latched), the latched button being that of the latest
\* press.
C8_ReleaseHoldLatch ==
    \A i \in 1..Len(mapLog) :
        LET r == mapLog[i] IN
        IsReleaseOrHold(r.raw) =>
            /\ (\A j \in 1..(i - 1) : ~IsPress(mapLog[j].raw)) =>
                  (r.out = Unknown(<<>>) /\ ~r.before.some)
            /\ PressesBefore(i) # {} =>
                  /\ r.before = Some(mapLog[Latest(PressesBefore(i))].raw.btn)
                  /\ r.out.e = "Mouse"
                  /\ r.out.event =
                        [m |-> r.raw.m, btn |-> mapLog[Latest(PressesBefore(i))].raw.btn]

\* C9: every mouse event emitted for a raw event at (x, y), x, y >= 1, has
\* position (x - 1, y - 1) and offset zero.
C9_ZeroBasedPosition ==
    \A i \in 1..Len(mapLog) :
        LET r == mapLog[i] IN
        (r.raw.t = "Mouse" /\ r.out.e = "Mouse" /\ r.raw.x >= 1 /\ r.raw.y >= 1) =>
            /\ r.out.position = <<r.raw.x - 1, r.raw.y - 1>>
            /\ r.out.offset = <<0, 0>>
            /\ (r.raw.x = 1 /\ r.raw.y = 1) => r.out.position = <<0, 0>>

\* C9 witness: a press, a release and a hold at (1, 1), all emitted as mouse
\* events.
C9_Witness ==
    /\ Len(mapLog) = 3
    /\ \A i \in 1..3 :
          /\ mapLog[i].out.e = "Mouse"
          /\ mapLog[i].raw.x = 1 /\ mapLog[i].raw.y = 1
    /\ {mapLog[i].raw.m : i \in 1..3} = {"Press", "Release", "Hold"}

\* C10 as stated: F(i) maps to a key exactly when 1 <= i <= 11, and to
\* Unknown([i]) when i >= 12.
C10_FKeyFrom1To11 ==
    \A i \in 1..Len(mapLog) :
        LET r == mapLog[i] IN
        IsFRaw(r.raw) =>
            /\ r.out.e = "Key" <=> (1 <= r.raw.i /\ r.raw.i <= 11)
            /\ r.raw.i >= 12 => r.out = Unknown(<<r.raw.i>>)

\* C10 as amended: F(i) maps to the key F(i) exactly when 0 <= i <= 11,
\* distinct indices giving distinct keys, and to Unknown([i]) when i >= 12.
C10_FKeyBelow12 ==
    \A i \in 1..Len(mapLog) :
        LET r == mapLog[i] IN
        IsFRaw(r.raw) =>
            /\ r.out.e = "Key" <=> (0 <= r.raw.i /\ r.raw.i <= 11)
            /\ r.raw.i <= 11 => r.out = KeyEvent([key |-> "F", n |-> r.raw.i])
            /\ r.raw.i >= 12 => r.out = Unknown(<<r.raw.i>>)
            /\ \A j \in 1..Len(mapLog) :
                  (IsFRaw(mapLog[j].raw) /\ mapLog[j].raw.i # r.raw.i) =>
                      mapLog[j].out # r.out

\* C10 witness: F(11), F(12) and F(0) have been mapped.
C10_Witness ==
    /\ \E i \in 1..Len(mapLog) :
          mapLog[i].raw = TKeyF(11) /\ mapLog[i].out.e = "Key"
    /\ \E i \in 1..Len(mapLog) :
          mapLog[i].raw = TKeyF(12) /\ mapLog[i].out = Unknown(<<12>>)
    /\ \E i \in 1..Len(mapLog) : mapLog[i].raw = TKeyF(0)

IsCtrlRaw(raw) == raw.t = "Key" /\ raw.k = "Ctrl"

\* C11: Ctrl+'c' maps to Exit and not to CtrlChar('c'); Ctrl plus any other
\* character c maps to CtrlChar(c); no other raw event maps to Exit.
C11_CtrlCIsExit ==
    \A i \in 1..Len(mapLog) :
        LET r == mapLog[i] IN
        /\ r.raw = TKeyCtrl("c") => (r.out = Exit /\ r.out # CtrlChar("c"))
        /\ (IsCtrlRaw(r.raw) /\ r.raw.c # "c") =>
              (r.out = CtrlChar(r.raw.c) /\ r.out # Exit)
        /\ r.out = Exit => r.raw = TKeyCtrl("c")

\* C11 witness: Ctrl+'c' and Ctrl+'a' have both been mapped.
C11_Witness ==
    /\ \E i \in 1..Len(mapLog) : mapLog[i].raw = TKeyCtrl("c") /\ mapLog[i].out = Exit
    /\ \E i \in 1..Len(mapLog) :
          mapLog[i].raw = TKeyCtrl("a") /\ mapLog[i].out = CtrlChar("a")

\* RequestTokens handed to the reader thread whose raw result the parser has
\* not received.
Outstanding == tokens - Len(mapLog)

\* C12: at most one RequestToken is outstanding, and while the parser exists
\* event_due is true exactly when one is: it is false while request() is
\* sending the token and while a response is sent after a raw result, true
\* while peek() or next_event() waits and after a peek timeout.
C12_EventDueIsOutstanding ==
    /\ Outstanding \in {0, 1}
    /\ ~Terminated(mpc) =>
          /\ event_due <=> (Outstanding = 1)
          /\ mpc = "req_send" => ~event_due
          /\ mpc \in {"select", "recv"} => event_due
          /\ (mpc = "respond" /\ respIdx > 0) => ~event_due
          /\ (mpc = "respond" /\ respIdx = 0) => event_due

\* C12 witness: a peek has timed out and its token is still outstanding while
\* the multiplexer waits for the next request; an earlier token was answered.
C12_Witness ==
    /\ mpc = "idle"
    /\ event_due
    /\ Outstanding = 1
    /\ tokens = 2

\* Blocking reads the reader thread has started: those that returned an
\* event, the one in progress and the one that failed.
ReadsStarted ==
    Len(rawLog) + (IF rpc \in {"read", "panicked"} THEN 1 ELSE 0)

\* C13: the reader thread has started exactly as many blocking reads as it
\* has received tokens, holds an event only while it sends it, and waits for
\* a token only once every event it read has been handed off; at most one
\* raw event read is not (yet) received by the parser.
C13_NoReadAhead ==
    /\ ReadsStarted = tokens
    /\ held.some <=> rpc = "send"
    /\ Len(rawLog) - Len(mapLog) \in {0, 1}
    /\ rpc = "recv" => (Len(rawLog) = Len(mapLog) /\ tokens = Len(mapLog))
    /\ rpc = "send" => (held.v.idx = Len(rawLog) /\ Len(rawLog) = Len(mapLog) + 1)

\* C13 witness: the reader thread holds its second event, read on the second
\* token, while the multiplexer is not waiting for it.
C13_Witness ==
    /\ rpc = "send"
    /\ tokens = 2
    /\ Len(rawLog) = 2
    /\ mpc = "idle"

\* last_button as the i-th application of map_key left it.
AfterButton(i) == IF i < Len(mapLog) THEN mapLog[i + 1].before ELSE last_button

RealButtons == {"Left", "Middle", "Right"}
\* The presses, of any button, mapped before the i-th mapping.
AnyPressesBefore(i) == {j \in 1..(i - 1) : IsPress(mapLog[j].raw)}

\* C14 as stated: every press records its button and is emitted as
\* Press(button); a release or hold reports the button of the latest press.
C14_EveryPressLatches ==
    \A i \in 1..Len(mapLog) :
        LET r == mapLog[i] IN
        /\ IsPress(r.raw) =>
              /\ AfterButton(i) = Some(r.raw.btn)
              /\ r.out.e = "Mouse"
              /\ r.out.event = MousePress(r.raw.btn)
        /\ (IsReleaseOrHold(r.raw) /\ AnyPressesBefore(i) # {}) =>
              /\ r.out.e = "Mouse"
              /\ r.out.event.btn = mapLog[Latest(AnyPressesBefore(i))].raw.btn

\* C14 as amended: a press of Left, Middle or Right records its button and
\* is emitted as Press(button), and a release or hold after such a press
\* reports the button of the latest one; a press of the wheel records
\* nothing.  The one exception is a coordinate 0 in a build with overflow
\* checks: the press panics before it records anything, and the release or
\* hold with a button latched panics too.
C14_ButtonPressLatches ==
    \A i \in 1..Len(mapLog) :
        LET r == mapLog[i] IN
        /\ (IsPress(r.raw) /\ r.raw.btn \in RealButtons) =>
              IF HasZero(r.raw) /\ overflow_checks
              THEN r.out = Panicked /\ AfterButton(i) = r.before
              ELSE /\ AfterButton(i) = Some(r.raw.btn)
                   /\ r.out.e = "Mouse"
                   /\ r.out.event = MousePress(r.raw.btn)
        /\ (IsPress(r.raw) /\ r.raw.btn \notin RealButtons) =>
              AfterButton(i) = r.before
        /\ (IsReleaseOrHold(r.raw) /\ PressesBefore(i) # {}) =>
              IF HasZero(r.raw) /\ overflow_checks
              THEN r.out = Panicked
              ELSE /\ r.out.e = "Mouse"
                   /\ r.out.event.m = r.raw.m
                   /\ r.out.event.btn = mapLog[Latest(PressesBefore(i))].raw.btn

\* C14 witness: two presses of different buttons, then a release that
\* reports the second.
C14_Witness ==
    /\ Len(mapLog) = 3
    /\ IsPress(mapLog[1].raw) /\ mapLog[1].raw.btn = "Left"
    /\ IsPress(mapLog[2].raw) /\ mapLog[2].raw.btn = "Right"
    /\ IsReleaseOrHold(mapLog[3].raw)
    /\ mapLog[3].out.e = "Mouse"
    /\ mapLog[3].out.event.btn = "Right"

\* C15 (as stated): last_button is None until a press is mapped and is
\* changed by nothing but the mapping of a press: whatever was mapped that
\* is not a press, and every step up to the next mapping, leaves it as it
\* was; releases and holds with no press between them all report the same
\* button.
C15_LatchChangesOnlyOnPress ==
    /\ Len(mapLog) = 0 => last_button = None
    /\ \A i \in 1..Len(mapLog) :
          /\ i = 1 => mapLog[i].before = None
          /\ ~IsPress(mapLog[i].raw) => AfterButton(i) = mapLog[i].before
          /\ mapLog[i].before.some => AfterButton(i).some
          /\ \A j \in 1..Len(mapLog) :
                (/\ i < j
                 /\ IsReleaseOrHold(mapLog[i].raw)
                 /\ IsReleaseOrHold(mapLog[j].raw)
                 /\ \A k \in (i + 1)..(j - 1) : ~IsPress(mapLog[k].raw))
                => (/\ mapLog[i].out.e = mapLog[j].out.e
                    /\ mapLog[i].out.e = "Mouse" =>
                          mapLog[i].out.event.btn = mapLog[j].out.event.btn)

\* C16 (as stated): a failed blocking read ends the reader thread and the
\* multiplexer thread does not fault; with the consumer still holding the
\* response channel, the multiplexer thread keeps running.
C16_ReadFailureIsSilent ==
    (rpc = "panicked" /\ ~respDropped) => mpc # "panicked"

\* C17 (as stated): a dropped peer is a normal end; while the raw input
\* source has not failed and map_key has not panicked, neither thread ends
\* with a fault.
C17_DisconnectIsNormalExit ==
    (rpc # "panicked" /\ \A i \in 1..Len(mapLog) : mapLog[i].out # Panicked)
        => mpc # "panicked"

\* C18: once the parser is dropped (its thread has ended), the reader thread
\* ends provided its blocking read returns; from the token receive it only
\* exits, from the send it only exits, from a blocking read it goes to the
\* send; it starts no blocking read, and at most one raw event is read and
\* not mapped.
C18_ReaderStopsAfterDrop ==
    /\ Terminated(mpc) ~> (Terminated(rpc) \/ rpc = "read")
    /\ [][Terminated(mpc) =>
            /\ rpc = "recv" => rpc' \in {"recv", "done"}
            /\ rpc = "read" => rpc' \in {"read", "send", "panicked"}
            /\ rpc = "send" => rpc' \in {"send", "done"}
            /\ Terminated(rpc) => rpc' = rpc
            /\ Len(rawLog') <= Len(rawLog) + (IF rpc = "read" THEN 1 ELSE 0)]_vars
    /\ [](Len(rawLog) - Len(mapLog) \in {0, 1})

\* C18 witness: the parser is gone and the reader thread has returned after
\* reading one raw event that was never mapped.
C18_Witness ==
    /\ Terminated(mpc)
    /\ rpc = "done"
    /\ Len(rawLog) = Len(mapLog) + 1
    /\ Len(mapLog) >= 1

\* C19: request() sends a token only when the reader thread is at its token
\* receive: the multiplexer is never blocked sending a token while the
\* reader thread is reading or sending a result.  The send then completes,
\* in a step that reads no raw input, and the parser goes on to wait for the
\* result.
C19_TokenSendNeverBlocks ==
    /\ [](mpc = "req_send" => (rpc = "recv" /\ ~event_due /\ ~held.some))
    /\ [](~(mpc = "req_send" /\ rpc = "send"))
    /\ [][mpc = "req_send" =>
            \/ mpc' = "req_send" /\ rpc' = rpc /\ rawLog' = rawLog
            \/ /\ mpc' \in {"select", "recv"}
               /\ tokens' = tokens + 1
               /\ rawLog' = rawLog]_vars
    /\ (mpc = "req_send") ~> (mpc \in {"select", "recv"})

\* C19 witness: request() is sending its second token, after a peek that
\* timed out with the reader thread still reading and a result handed off.
C19_Witness ==
    /\ mpc = "req_send"
    /\ rpc = "recv"
    /\ tokens = 1
    /\ Len(mapLog) = 1
    /\ \E k \in 1..Len(sent) : ~sent[k].resp.some

IsWheelPress(raw) == IsPress(raw) /\ raw.btn \in {"WheelUp", "WheelDown"}

\* C20 (as stated): a press of WheelUp or WheelDown is emitted as the mouse event
\* WheelUp or WheelDown, not as a press, and leaves last_button as it was;
\* a release or hold after Press(b), b one of Left, Middle, Right, and any
\* number of wheel presses reports b, and a release or hold that only wheel
\* presses came before maps to Unknown([]).
C20_WheelLeavesLatch ==
    \A i \in 1..Len(mapLog) :
        LET r == mapLog[i] IN
        /\ IsWheelPress(r.raw) =>
              /\ r.out.e = "Mouse"
              /\ r.out.event =
                    (IF r.raw.btn = "WheelUp" THEN MouseWheelUp ELSE MouseWheelDown)
              /\ r.out.event.m # "Press"
              /\ AfterButton(i) = r.before
        /\ IsReleaseOrHold(r.raw) =>
              /\ \A j \in 1..(i - 1) :
                    (/\ IsPress(mapLog[j].raw)
                     /\ mapLog[j].raw.btn \in RealButtons
                     /\ \A k \in (j + 1)..(i - 1) : IsWheelPress(mapLog[k].raw))
                    => (/\ r.out.e = "Mouse"
                        /\ r.out.event.m = r.raw.m
                        /\ r.out.event.btn = mapLog[j].raw.btn)
              /\ (\A j \in 1..(i - 1) :
                       IsPress(mapLog[j].raw) => IsWheelPress(mapLog[j].raw))
                    => r.out = Unknown(<<>>)

====
